---- MODULE Spec2Model ----
(***************************************************************************)
(* AutoFlow server (src/server.js): the in-memory stores, the two          *)
(* authentication handlers with their awaits, the authenticateToken        *)
(* middleware, the guarded routes, the execution timers and the            *)
(* asynchronous creation of the default admin started by app.listen.       *)
(* Timestamps (createdAt, startedAt, ...) are left out of the records, and *)
(* a run lasts less than the 24 hours after which a token expires.         *)
(***************************************************************************)
EXTENDS Integers, Sequences, FiniteSets, Bags, TLC

\* ------------------------------------------------------------------ bounds

\* At most MaxUsers entries of users (pushed or still awaiting their hash).
MaxUsers == 3
\* At most MaxWorkflows entries of workflows.
MaxWorkflows == 2
\* At most MaxExecutions entries of executions.
MaxExecutions == 2
\* At most MaxCreated integrations pushed on top of the seeded ones.
MaxCreated == 1
\* At most MaxLogins login handlers suspended at bcrypt.compare at a time.
MaxLogins == 1
\* At most MaxRequests HTTP requests are received.
MaxRequests == 4

\* ------------------------------------------------------------------ values

\* JavaScript's undefined, for a missing body field, header or array slot.
Undefined == "undefined"

JWT_SECRET == "autoflow-secret-key-change-in-production"
\* A secret that is not the server's, for tokens signed by somebody else.
OtherSecret == "not-the-server-secret"

AdminEmail == "admin@autoflow.com"
AdminPassword == "admin123"
AdminName == "AutoFlow Admin"

\* Request inputs.  "" is a field the body leaves out (falsy).
Emails == {"", AdminEmail, "a@x.com"}
Passwords == {"", AdminPassword, "pw"}
Names == {"", "n"}
\* Math.floor(Math.random() * 50) + 1 ranges over 1..50; its two ends are drawn.
RandomItems == {1, 50}

\* ------------------------------------------------------------------ state

VARIABLES
    startup,      \* "loaded" | "hashing" | "done" | "skipped": the app.listen callback
    users,        \* let users = []
    workflows,    \* let workflows = []
    executions,   \* let executions = []
    integrations, \* let integrations = [ ...5 seeded... ]
    templates,    \* let templates = [ ...2 seeded... ]
    registering,  \* bag of register handlers suspended at await bcrypt.hash
    loggingIn,    \* bag of login handlers suspended at await bcrypt.compare
    timers,       \* indexes of the executions whose setTimeout is pending
    issued,       \* the tokens jwt.sign has handed out
    received,     \* the number of HTTP requests received so far
    res           \* the last response sent

vars == <<startup, users, workflows, executions, integrations, templates,
          registering, loggingIn, timers, issued, received, res>>

\* The five stores; the handler of a rejected request touches none of them.
stores == <<users, workflows, executions, integrations, templates>>

SeedIntegrations ==
    << [id |-> "github-1", name |-> "GitHub", type |-> "github", status |-> "active"],
       [id |-> "slack-1", name |-> "Slack", type |-> "slack", status |-> "active"],
       [id |-> "openai-1", name |-> "OpenAI", type |-> "openai", status |-> "active"],
       [id |-> "aws-1", name |-> "AWS", type |-> "aws", status |-> "active"],
       [id |-> "stripe-1", name |-> "Stripe", type |-> "stripe", status |-> "active"] >>

SeedTemplates ==
    << [id |-> "email-automation-1", name |-> "Email Marketing Automation",
        description |-> "Automated email sequences for lead nurturing",
        category |-> "Marketing", triggers |-> <<"webhook", "schedule">>,
        actions |-> <<"email", "crm_update">>, price |-> 99],
       [id |-> "social-media-1", name |-> "Social Media Cross-posting",
        description |-> "Post content across multiple social platforms",
        category |-> "Social Media", triggers |-> <<"manual", "schedule">>,
        actions |-> <<"twitter_post", "linkedin_post", "facebook_post">>,
        price |-> 149] >>

\* ------------------------------------------------------------------ library

\* uuidv4(): a fresh id; the n-th id of a kind is unlike every other id.
uuidv4(kind, n) == <<kind, n>>

\* bcrypt.hash(password, 12): a one-way digest of the password.
bcryptHash(password) == [alg |-> "bcrypt", rounds |-> 12, of |-> password]

\* bcrypt.compare(password, hash): does the password hash to this digest?
bcryptCompare(password, hash) == bcryptHash(password) = hash

\* The signature of a payload under a secret.
Signature(payload, secret) == <<payload, secret>>

\* jwt.sign(payload, secret, { expiresIn: '24h' }).  The runs modelled last less
\* than the 24 hours a token lives, so iat and exp are left out of the payload.
jwtSign(payload, secret) ==
    [payload |-> payload, sig |-> Signature(payload, secret)]

\* jwt.verify(token, secret): the signature is the one the secret gives the payload.
jwtVerify(token, secret) == token.sig = Signature(token.payload, secret)

\* Array.prototype.find, given the indexes of the elements that satisfy the
\* callback: the first of them, or 0 when there is none (undefined).
Find(matches) ==
    IF matches = {} THEN 0 ELSE CHOOSE i \in matches : \A j \in matches : i <= j

\* ------------------------------------------------------------------ start

Init ==
    /\ startup = "loaded"
    /\ users = <<>>
    /\ workflows = <<>>
    /\ executions = <<>>
    /\ integrations = SeedIntegrations
    /\ templates = SeedTemplates
    /\ registering = EmptyBag
    /\ loggingIn = EmptyBag
    /\ timers = {}
    /\ issued = {}
    /\ received = 0
    /\ res = [route |-> "none", status |-> 0, body |-> Undefined]

\* The server takes a request once app.listen has called back.
listening == startup # "loaded" /\ received < MaxRequests

\* app.listen callback: start hashing the default admin's password if users is empty.
Listen ==
    /\ startup = "loaded"
    /\ startup' = IF Len(users) = 0 THEN "hashing" ELSE "skipped"
    /\ UNCHANGED <<users, workflows, executions, integrations, templates,
                   registering, loggingIn, timers, issued, received, res>>

\* The user the .then callback of bcrypt.hash('admin123', 12) pushes.
DefaultAdmin ==
    [id |-> uuidv4("user", Len(users) + 1), email |-> AdminEmail, name |-> AdminName,
     password |-> bcryptHash(AdminPassword), role |-> "admin"]

\* bcrypt.hash('admin123', 12).then(...): push the default admin, unconditionally.
AdminCreated ==
    /\ startup = "hashing"
    /\ users' = Append(users, DefaultAdmin)
    /\ startup' = "done"
    /\ UNCHANGED <<workflows, executions, integrations, templates,
                   registering, loggingIn, timers, issued, received, res>>

\* ------------------------------------------------------------------ auth routes

\* The public view of a user in the register and login responses.
PublicUser(user) ==
    [id |-> user.id, email |-> user.email, name |-> user.name, role |-> user.role]

TokenClaims(user) == [userId |-> user.id, email |-> user.email, role |-> user.role]

\* Mutant: the lookup compares the email with the users' names.
FindUserByEmail_ByName(email) ==
    Find({i \in 1..Len(users) : users[i].name = email})

\* users.find(u => u.email === email), as an index (0: not found).
FindUserByEmail(email) == Find({i \in 1..Len(users) : users[i].email = email})

\* Users pushed or about to be pushed.
UsersInFlight ==
    Len(users) + BagCardinality(registering) + (IF startup = "hashing" THEN 1 ELSE 0)

\* POST /api/auth/register, up to await bcrypt.hash.
Register(email, password, name) ==
    /\ listening
    /\ IF email = "" \/ password = "" \/ name = ""
       THEN /\ res' = [route |-> "register", status |-> 400,
                       body |-> [error |-> "Email, password, and name are required"]]
            /\ UNCHANGED registering
       ELSE IF FindUserByEmail(email) # 0
       THEN /\ res' = [route |-> "register", status |-> 400,
                       body |-> [error |-> "User already exists"]]
            /\ UNCHANGED registering
       ELSE /\ UsersInFlight < MaxUsers
            /\ registering' = registering (+)
                   SetToBag({[email |-> email, password |-> password, name |-> name]})
            /\ UNCHANGED res
    /\ received' = received + 1
    /\ UNCHANGED <<startup, users, workflows, executions, integrations, templates,
                   loggingIn, timers, issued>>

\* Mutant: the role test is off by one (users.length <= 1).
NewUser_OffByOne(r) ==
    [id |-> uuidv4("user", Len(users) + 1), email |-> r.email, name |-> r.name,
     password |-> [alg |-> "bcrypt", rounds |-> 12, of |-> r.password],
     role |-> IF Len(users) <= 1 THEN "admin" ELSE "user"]

\* The user a register handler builds once its hash is there.
NewUser(r) ==
    [id |-> uuidv4("user", Len(users) + 1), email |-> r.email, name |-> r.name,
     password |-> bcryptHash(r.password),
     role |-> IF Len(users) = 0 THEN "admin" ELSE "user"]

\* POST /api/auth/register, from the hash to the response.
RegisterResume(r) ==
    /\ BagIn(r, registering)
    /\ LET user == NewUser(r)
           token == jwtSign(TokenClaims(user), JWT_SECRET)
       IN  /\ users' = Append(users, user)
           /\ issued' = issued \cup {token}
           /\ res' = [route |-> "register", status |-> 201,
                      body |-> [token |-> token, user |-> PublicUser(user)]]
    /\ registering' = registering (-) SetToBag({r})
    /\ UNCHANGED <<startup, workflows, executions, integrations, templates,
                   loggingIn, timers, received>>

\* POST /api/auth/login, up to await bcrypt.compare.
Login(email, password) ==
    /\ listening
    /\ IF email = "" \/ password = ""
       THEN /\ res' = [route |-> "login", status |-> 400,
                       body |-> [error |-> "Email and password are required"]]
            /\ UNCHANGED loggingIn
       ELSE IF FindUserByEmail(email) = 0
       THEN /\ res' = [route |-> "login", status |-> 401,
                       body |-> [error |-> "Invalid credentials"]]
            /\ UNCHANGED loggingIn
       ELSE /\ BagCardinality(loggingIn) < MaxLogins
            /\ loggingIn' = loggingIn (+)
                   SetToBag({[email |-> email, password |-> password,
                               user |-> FindUserByEmail(email)]})
            /\ UNCHANGED res
    /\ received' = received + 1
    /\ UNCHANGED <<startup, users, workflows, executions, integrations, templates,
                   registering, timers, issued>>

\* POST /api/auth/login, from the comparison to the response.
LoginResume(l) ==
    /\ BagIn(l, loggingIn)
    /\ LET user == users[l.user]
           token == jwtSign(TokenClaims(user), JWT_SECRET)
       IN  IF ~bcryptCompare(l.password, user.password)
           THEN /\ res' = [route |-> "login", status |-> 401,
                           body |-> [error |-> "Invalid credentials"]]
                /\ UNCHANGED issued
           ELSE /\ res' = [route |-> "login", status |-> 200,
                           body |-> [token |-> token, user |-> PublicUser(user)]]
                /\ issued' = issued \cup {token}
    /\ loggingIn' = loggingIn (-) SetToBag({l})
    /\ UNCHANGED <<startup, users, workflows, executions, integrations, templates,
                   registering, timers, received>>

\* ------------------------------------------------------------------ middleware

\* The Authorization header after split(' '): <<>> when the header is absent,
\* else its words.  Tokens are offered as issued, signed with another secret,
\* or with the payload altered under the original signature.
Resign(token) == [token EXCEPT !.sig = Signature(token.payload, OtherSecret)]
Tamper(token) ==
    [token EXCEPT !.payload.role = IF @ = "admin" THEN "user" ELSE "admin"]
Tokens == issued \cup {Resign(t) : t \in issued} \cup {Tamper(t) : t \in issued}
AuthHeaders ==
    {<<>>, <<"Bearer">>} \cup {<<"Bearer", t>> : t \in Tokens}
                         \cup {<<"Basic", t>> : t \in issued}

\* authHeader && authHeader.split(' ')[1] is truthy.
HasToken(authHeader) == Len(authHeader) >= 2

\* Mutant: the token is decoded (jwt.decode) but its signature is not verified.
authenticateToken_Decode(authHeader) ==
    IF ~HasToken(authHeader)
    THEN [status |-> 401, error |-> "Access token required"]
    ELSE [status |-> 200, user |-> authHeader[2].payload]

\* authenticateToken: 401 without a token, 403 when jwt.verify fails, else next()
\* with req.user set to the token's payload.
authenticateToken(authHeader) ==
    IF ~HasToken(authHeader)
    THEN [status |-> 401, error |-> "Access token required"]
    ELSE IF ~jwtVerify(authHeader[2], JWT_SECRET)
    THEN [status |-> 403, error |-> "Invalid token"]
    ELSE [status |-> 200, user |-> authHeader[2].payload]

\* The response of a request the middleware turns away.
Denied(route, auth) ==
    [route |-> route, status |-> auth.status, body |-> [error |-> auth.error]]

\* ------------------------------------------------------------------ workflows

\* Mutant: the list is not filtered by owner.
UserWorkflows_All(user) == workflows

\* workflows.filter(w => w.userId === req.user.userId)
UserWorkflows(user) == SelectSeq(workflows, LAMBDA w : w.userId = user.userId)

\* GET /api/workflows
GetWorkflows(authHeader) ==
    /\ listening
    /\ LET auth == authenticateToken(authHeader)
       IN  IF auth.status # 200
           THEN res' = Denied("GET /api/workflows", auth)
           ELSE res' = [route |-> "GET /api/workflows", status |-> 200,
                        body |-> UserWorkflows(auth.user)]
    /\ received' = received + 1
    /\ UNCHANGED <<startup, users, workflows, executions, integrations, templates,
                   registering, loggingIn, timers, issued>>

\* Request bodies of POST /api/workflows: with and without actions.
WorkflowBodies ==
    { [name |-> "wf", description |-> "d", trigger |-> "manual"],
      [name |-> "wf", description |-> "d", trigger |-> "manual",
       actions |-> <<"email">>] }

\* actions || []
ActionsOrEmpty(body) == IF "actions" \in DOMAIN body THEN body.actions ELSE <<>>

\* The workflow POST /api/workflows builds.
NewWorkflow(user, body) ==
    [id |-> uuidv4("workflow", Len(workflows) + 1), userId |-> user.userId,
     name |-> body.name, description |-> body.description, trigger |-> body.trigger,
     actions |-> ActionsOrEmpty(body), status |-> "active"]

\* POST /api/workflows
PostWorkflows(authHeader, body) ==
    /\ listening
    /\ LET auth == authenticateToken(authHeader)
       IN  IF auth.status # 200
           THEN /\ res' = Denied("POST /api/workflows", auth)
                /\ UNCHANGED workflows
           ELSE /\ Len(workflows) < MaxWorkflows
                /\ workflows' = Append(workflows, NewWorkflow(auth.user, body))
                /\ res' = [route |-> "POST /api/workflows", status |-> 201,
                           body |-> NewWorkflow(auth.user, body)]
    /\ received' = received + 1
    /\ UNCHANGED <<startup, users, executions, integrations, templates,
                   registering, loggingIn, timers, issued>>

\* ------------------------------------------------------------------ integrations

\* GET /api/integrations
GetIntegrations(authHeader) ==
    /\ listening
    /\ LET auth == authenticateToken(authHeader)
       IN  IF auth.status # 200
           THEN res' = Denied("GET /api/integrations", auth)
           ELSE res' = [route |-> "GET /api/integrations", status |-> 200,
                        body |-> integrations]
    /\ received' = received + 1
    /\ UNCHANGED <<startup, users, workflows, executions, integrations, templates,
                   registering, loggingIn, timers, issued>>

\* The integration POST /api/integrations builds.
NewIntegration(user, body) ==
    [id |-> uuidv4("integration", Len(integrations) + 1), userId |-> user.userId,
     name |-> body.name, type |-> body.type, config |-> body.config,
     status |-> "active"]

IntegrationBodies == { [name |-> "hook", type |-> "webhook", config |-> "c"] }

\* POST /api/integrations
PostIntegrations(authHeader, body) ==
    /\ listening
    /\ LET auth == authenticateToken(authHeader)
       IN  IF auth.status # 200
           THEN /\ res' = Denied("POST /api/integrations", auth)
                /\ UNCHANGED integrations
           ELSE /\ Len(integrations) < Len(SeedIntegrations) + MaxCreated
                /\ integrations' = Append(integrations, NewIntegration(auth.user, body))
                /\ res' = [route |-> "POST /api/integrations", status |-> 201,
                           body |-> NewIntegration(auth.user, body)]
    /\ received' = received + 1
    /\ UNCHANGED <<startup, users, workflows, executions, templates,
                   registering, loggingIn, timers, issued>>

\* ------------------------------------------------------------------ templates

\* GET /api/templates
GetTemplates(authHeader) ==
    /\ listening
    /\ LET auth == authenticateToken(authHeader)
       IN  IF auth.status # 200
           THEN res' = Denied("GET /api/templates", auth)
           ELSE res' = [route |-> "GET /api/templates", status |-> 200,
                        body |-> templates]
    /\ received' = received + 1
    /\ UNCHANGED <<startup, users, workflows, executions, integrations, templates,
                   registering, loggingIn, timers, issued>>

\* The :templateId parameters tried: the seeded ids and one that names no template.
TemplateIds == {SeedTemplates[i].id : i \in 1..Len(SeedTemplates)} \cup {"no-such-template"}

\* templates.find(t => t.id === templateId), as an index (0: not found).
FindTemplate(templateId) ==
    Find({i \in 1..Len(templates) : templates[i].id = templateId})

\* Mutant: the trigger is the template's last one, not its first.
DeployedWorkflow_LastTrigger(user, template) ==
    [id |-> uuidv4("workflow", Len(workflows) + 1), userId |-> user.userId,
     name |-> template.name, description |-> template.description,
     trigger |-> template.triggers[Len(template.triggers)],
     actions |-> template.actions,
     status |-> "active", templateId |-> template.id]

\* The workflow POST /api/templates/:templateId/deploy builds.
DeployedWorkflow(user, template) ==
    [id |-> uuidv4("workflow", Len(workflows) + 1), userId |-> user.userId,
     name |-> template.name, description |-> template.description,
     trigger |-> template.triggers[1], actions |-> template.actions,
     status |-> "active", templateId |-> template.id]

\* POST /api/templates/:templateId/deploy
DeployTemplate(authHeader, templateId) ==
    /\ listening
    /\ LET auth == authenticateToken(authHeader)
           t == FindTemplate(templateId)
       IN  IF auth.status # 200
           THEN /\ res' = Denied("POST /api/templates/:templateId/deploy", auth)
                /\ UNCHANGED workflows
           ELSE IF t = 0
           THEN /\ res' = [route |-> "POST /api/templates/:templateId/deploy",
                           status |-> 404, body |-> [error |-> "Template not found"]]
                /\ UNCHANGED workflows
           ELSE /\ Len(workflows) < MaxWorkflows
                /\ workflows' = Append(workflows, DeployedWorkflow(auth.user, templates[t]))
                /\ res' = [route |-> "POST /api/templates/:templateId/deploy",
                           status |-> 201,
                           body |-> [message |-> "Template deployed successfully",
                                     workflow |-> DeployedWorkflow(auth.user, templates[t])]]
    /\ received' = received + 1
    /\ UNCHANGED <<startup, users, executions, integrations, templates,
                   registering, loggingIn, timers, issued>>

\* ------------------------------------------------------------------ executions

\* executions.filter(e => e.userId === req.user.userId)
UserExecutions(user) == SelectSeq(executions, LAMBDA e : e.userId = user.userId)

\* GET /api/executions
GetExecutions(authHeader) ==
    /\ listening
    /\ LET auth == authenticateToken(authHeader)
       IN  IF auth.status # 200
           THEN res' = Denied("GET /api/executions", auth)
           ELSE res' = [route |-> "GET /api/executions", status |-> 200,
                        body |-> UserExecutions(auth.user)]
    /\ received' = received + 1
    /\ UNCHANGED <<startup, users, workflows, executions, integrations, templates,
                   registering, loggingIn, timers, issued>>

\* The :workflowId parameters tried: every id a workflow can have and one more.
WorkflowIds == {uuidv4("workflow", n) : n \in 1..(MaxWorkflows + 1)}

\* Mutant: the lookup does not compare the owner.
FindOwnWorkflow_AnyOwner(workflowId, user) ==
    Find({i \in 1..Len(workflows) : workflows[i].id = workflowId})

\* workflows.find(w => w.id === workflowId && w.userId === req.user.userId),
\* as an index (0: not found).
FindOwnWorkflow(workflowId, user) ==
    Find({i \in 1..Len(workflows) :
             workflows[i].id = workflowId /\ workflows[i].userId = user.userId})

\* The execution POST /api/executions/:workflowId builds.
NewExecution(user, workflowId, workflow) ==
    [id |-> uuidv4("execution", Len(executions) + 1), userId |-> user.userId,
     workflowId |-> workflowId, status |-> "running",
     logs |-> << <<"Execution started for workflow", workflow.name>> >>]

\* POST /api/executions/:workflowId
PostExecutions(authHeader, workflowId) ==
    /\ listening
    /\ LET auth == authenticateToken(authHeader)
       IN  IF auth.status # 200
           THEN /\ res' = Denied("POST /api/executions/:workflowId", auth)
                /\ UNCHANGED <<executions, timers>>
           ELSE LET w == FindOwnWorkflow(workflowId, auth.user)
                IN  IF w = 0
                    THEN /\ res' = [route |-> "POST /api/executions/:workflowId",
                                    status |-> 404,
                                    body |-> [error |-> "Workflow not found"]]
                         /\ UNCHANGED <<executions, timers>>
                    ELSE /\ Len(executions) < MaxExecutions
                         /\ executions' = Append(executions,
                                NewExecution(auth.user, workflowId, workflows[w]))
                         /\ timers' = timers \cup {Len(executions) + 1}
                         /\ res' = [route |-> "POST /api/executions/:workflowId",
                                    status |-> 201,
                                    body |-> NewExecution(auth.user, workflowId,
                                                          workflows[w])]
    /\ received' = received + 1
    /\ UNCHANGED <<startup, users, workflows, integrations, templates,
                   registering, loggingIn, issued>>

\* Mutant: the callback writes its logs but not the status.
Completed_LogsOnly(execution, items) ==
    [execution EXCEPT
        !.logs = @ \o << <<"Execution completed successfully">>,
                         <<"Processed items", items>> >>]

\* What the setTimeout callback makes of an execution.
Completed(execution, items) ==
    [execution EXCEPT
        !.status = "completed",
        !.logs = @ \o << <<"Execution completed successfully">>,
                         <<"Processed items", items>> >>]

\* The setTimeout callback of execution number i runs.
TimerFires(i, items) ==
    /\ i \in timers
    /\ executions' = [executions EXCEPT ![i] = Completed(@, items)]
    /\ timers' = timers \ {i}
    /\ UNCHANGED <<startup, users, workflows, integrations, templates,
                   registering, loggingIn, issued, received, res>>

\* ------------------------------------------------------------------ stats

\* GET /api/system/stats
GetStats(authHeader) ==
    /\ listening
    /\ LET auth == authenticateToken(authHeader)
       IN  IF auth.status # 200
           THEN res' = Denied("GET /api/system/stats", auth)
           ELSE res' = [route |-> "GET /api/system/stats", status |-> 200,
                        body |-> [
                          totalWorkflows |-> Len(UserWorkflows(auth.user)),
                          totalExecutions |-> Len(UserExecutions(auth.user)),
                          totalIntegrations |-> Len(integrations),
                          totalTemplates |-> Len(templates)]]
    /\ received' = received + 1
    /\ UNCHANGED <<startup, users, workflows, executions, integrations, templates,
                   registering, loggingIn, timers, issued>>

Next ==
    \/ Listen
    \/ AdminCreated
    \/ \E e \in Emails, p \in Passwords, n \in Names : Register(e, p, n)
    \/ \E r \in BagToSet(registering) : RegisterResume(r)
    \/ \E e \in Emails, p \in Passwords : Login(e, p)
    \/ \E l \in BagToSet(loggingIn) : LoginResume(l)
    \/ \E h \in AuthHeaders : GetWorkflows(h)
    \/ \E h \in AuthHeaders, b \in WorkflowBodies : PostWorkflows(h, b)
    \/ \E h \in AuthHeaders : GetIntegrations(h)
    \/ \E h \in AuthHeaders, b \in IntegrationBodies : PostIntegrations(h, b)
    \/ \E h \in AuthHeaders : GetTemplates(h)
    \/ \E h \in AuthHeaders, t \in TemplateIds : DeployTemplate(h, t)
    \/ \E h \in AuthHeaders : GetExecutions(h)
    \/ \E h \in AuthHeaders, w \in WorkflowIds : PostExecutions(h, w)
    \/ \E i \in timers, n \in RandomItems : TimerFires(i, n)
    \/ \E h \in AuthHeaders : GetStats(h)

Spec == Init /\ [][Next]_vars

\* Node runs a timer that is due: each pending setTimeout callback is weakly fair.
FairSpec ==
    /\ Spec
    /\ \A i \in 1..MaxExecutions : WF_vars(\E n \in RandomItems : TimerFires(i, n))

\* ------------------------------------------------------------------ properties

\* Some guarded route receives a request with this Authorization header.
GuardedRequest(h) ==
    \/ GetWorkflows(h)
    \/ \E b \in WorkflowBodies : PostWorkflows(h, b)
    \/ GetIntegrations(h)
    \/ \E b \in IntegrationBodies : PostIntegrations(h, b)
    \/ GetTemplates(h)
    \/ \E t \in TemplateIds : DeployTemplate(h, t)
    \/ GetExecutions(h)
    \/ \E w \in WorkflowIds : PostExecutions(h, w)
    \/ GetStats(h)

\* The header carries a token signed with the server's secret.
Authentic(h) == HasToken(h) /\ jwtVerify(h[2], JWT_SECRET)

\* The registrations that succeeded so far: the users other than the default admin.
Registered == Len(users) - (IF startup = "done" THEN 1 ELSE 0)

\* C1: no two entries of users share an email.
C1_EmailsUnique ==
    \A i, j \in 1..Len(users) : i # j => users[i].email # users[j].email

\* C2 as stated: the first successful registration yields role admin, every
\* later one role user, whether or not the default admin has been added.
C2_FirstRegistrantIsAdmin ==
    [][\A r \in BagToSet(registering) : RegisterResume(r) =>
          users'[Len(users')].role = (IF Registered = 0 THEN "admin" ELSE "user")]_vars

\* C2 as amended: a successful registration yields role admin exactly when it is
\* the first one and the default admin has not been added yet, and role user
\* otherwise; the response and the token carry the stored role.
C2_AdminIffFirstPush ==
    [][\A r \in BagToSet(registering) : RegisterResume(r) =>
          /\ Len(users') = Len(users) + 1
          /\ users'[Len(users')].role =
                (IF Registered = 0 /\ startup # "done" THEN "admin" ELSE "user")
          /\ res'.status = 201
          /\ res'.body.user.role = users'[Len(users')].role
          /\ res'.body.token.payload.role = users'[Len(users')].role]_vars

\* The first registration came after the default admin and got role user.
C2_Witness ==
    /\ res.route = "register" /\ res.status = 201
    /\ Len(users) = 2
    /\ startup = "done"
    /\ users[1].role = "admin" /\ users[1].name = AdminName
    /\ users[2].role = "user" /\ res.body.user.id = users[2].id

\* C3: a register request whose email is already in users is answered 400 and
\* adds no user, issues no token and suspends no handler.
C3_DuplicateRejected ==
    [][\A e \in Emails, p \in Passwords, n \in Names :
          (Register(e, p, n) /\ \E i \in 1..Len(users) : users[i].email = e) =>
             /\ res' = [route |-> "register", status |-> 400,
                        body |-> [error |-> IF p = "" \/ n = ""
                                            THEN "Email, password, and name are required"
                                            ELSE "User already exists"]]
             /\ users' = users
             /\ issued' = issued
             /\ registering' = registering]_vars

\* A register request was turned away because its email is taken.
C3_Witness ==
    /\ res.route = "register" /\ res.status = 400
    /\ res.body.error = "User already exists"
    /\ Len(users) >= 1

\* C4: a login with a registered user's email is answered 401 without a token
\* when the password is not that user's, and with the user's password by a token
\* carrying that user's id, email and role that authenticateToken accepts; login
\* leaves users alone.
C4_LoginByPassword ==
    [][\A l \in BagToSet(loggingIn) : LoginResume(l) =>
          /\ users' = users
          /\ \A i \in 1..Len(users) : users[i].email = l.email =>
                IF bcryptCompare(l.password, users[i].password)
                THEN /\ res'.status = 200
                     /\ res'.body.token.payload = TokenClaims(users[i])
                     /\ Authentic(<<"Bearer", res'.body.token>>)
                ELSE /\ res'.status = 401
                     /\ issued' = issued]_vars

\* C5: GET /api/workflows answers a caller with exactly the workflows whose
\* userId is the caller's; a workflow created by POST /api/workflows or by a
\* template deployment gets the caller's userId, which is the id of a user, and
\* no entry of workflows ever changes or goes away.
C5_WorkflowsIsolated ==
    /\ [](\A i \in 1..Len(workflows) :
             \E k \in 1..Len(users) : users[k].id = workflows[i].userId)
    /\ [][/\ Len(workflows') >= Len(workflows)
          /\ \A i \in 1..Len(workflows) : workflows'[i] = workflows[i]]_vars
    /\ [][\A h \in AuthHeaders :
            /\ (Authentic(h) /\ GetWorkflows(h)) =>
                  /\ res'.status = 200
                  /\ \A k \in 1..Len(res'.body) :
                        res'.body[k].userId = h[2].payload.userId
                  /\ \A i \in 1..Len(workflows) :
                        workflows[i].userId = h[2].payload.userId <=>
                           \E k \in 1..Len(res'.body) : res'.body[k] = workflows[i]
            /\ (/\ \/ \E b \in WorkflowBodies : PostWorkflows(h, b)
                    \/ \E t \in TemplateIds : DeployTemplate(h, t)
                 /\ workflows' # workflows) =>
                  /\ Authentic(h)
                  /\ Len(workflows') = Len(workflows) + 1
                  /\ workflows'[Len(workflows')].userId = h[2].payload.userId]_vars

\* A caller was shown an empty list while another user's workflow was stored.
C5_Witness ==
    /\ res.route = "GET /api/workflows" /\ res.status = 200
    /\ res.body = <<>>
    /\ Len(workflows) >= 1

\* C6: deploying an existing template appends exactly one workflow, owned by the
\* caller, with the template's name, description, first trigger and actions and
\* status active, and leaves templates alone; an id matching no template is
\* answered 404 with workflows unchanged.
C6_DeployClonesTemplate ==
    [][\A h \in AuthHeaders, id \in TemplateIds :
          (Authentic(h) /\ DeployTemplate(h, id)) =>
             /\ templates' = templates
             /\ IF \E k \in 1..Len(templates) : templates[k].id = id
                THEN LET t == CHOOSE t \in {templates[k] : k \in 1..Len(templates)} :
                                 t.id = id
                         w == workflows'[Len(workflows')]
                     IN  /\ Len(workflows') = Len(workflows) + 1
                         /\ SubSeq(workflows', 1, Len(workflows)) = workflows
                         /\ w.userId = h[2].payload.userId
                         /\ w.name = t.name
                         /\ w.description = t.description
                         /\ w.trigger = Head(t.triggers)
                         /\ w.actions = t.actions
                         /\ w.status = "active"
                         /\ res'.status = 201
                         /\ res'.body.workflow = w
                ELSE /\ res'.status = 404
                     /\ workflows' = workflows]_vars

\* A template was deployed and its workflow stored.
C6_Witness ==
    /\ res.route = "POST /api/templates/:templateId/deploy" /\ res.status = 201
    /\ Len(workflows) >= 1
    /\ workflows[Len(workflows)] = res.body.workflow
    /\ res.body.workflow.name = "Social Media Cross-posting"

\* C7: an execution is running in its creation response and in every state and
\* read until its timer fires, completed from then on; it has no other status;
\* its timer fires exactly once, touching no other execution; and under
\* fairness of the timers every execution is eventually completed.
C7_RunningThenCompleted ==
    /\ [](\A i \in 1..Len(executions) :
             /\ executions[i].status \in {"running", "completed"}
             /\ executions[i].status = "running" <=> i \in timers
             /\ Len(executions[i].logs) = (IF i \in timers THEN 1 ELSE 3))
    /\ [](timers \subseteq 1..Len(executions))
    /\ [][\A h \in AuthHeaders, id \in WorkflowIds :
            (PostExecutions(h, id) /\ executions' # executions) =>
               /\ res'.status = 201
               /\ res'.body.status = "running"
               /\ executions' = Append(executions, res'.body)
               /\ timers' = timers \cup {Len(executions')}]_vars
    /\ [][\A h \in AuthHeaders :
            (Authentic(h) /\ GetExecutions(h)) =>
               \A k \in 1..Len(res'.body) :
                  \E i \in 1..Len(executions) :
                     /\ res'.body[k] = executions[i]
                     /\ i \in timers => res'.body[k].status = "running"]_vars
    /\ [][\A i \in 1..Len(executions) :
            /\ executions[i].status = "completed" => executions'[i] = executions[i]
            /\ (\E n \in RandomItems : TimerFires(i, n)) =>
                  /\ executions[i].status = "running"
                  /\ executions'[i].status = "completed"
                  /\ \A j \in 1..Len(executions) : j # i =>
                        /\ executions'[j] = executions[j]
                        /\ j \in timers' <=> j \in timers]_vars
    /\ \A i \in 1..MaxExecutions :
          (i <= Len(executions)) ~>
             (i <= Len(executions) /\ executions[i].status = "completed")

\* One execution has completed while another is still running.
C7_Witness ==
    \E i, j \in 1..Len(executions) :
        /\ executions[i].status = "completed"
        /\ executions[j].status = "running"

\* C8: once the default admin has been created, a login with admin@autoflow.com
\* and admin123 succeeds with a token of role admin.
C8_DefaultAdminLogin ==
    [][startup = "done" =>
         /\ Login(AdminEmail, AdminPassword) => loggingIn' # loggingIn
         /\ \A l \in BagToSet(loggingIn) :
               (LoginResume(l) /\ l.email = AdminEmail /\ l.password = AdminPassword) =>
                  /\ res'.status = 200
                  /\ res'.body.user.role = "admin"
                  /\ res'.body.token.payload.role = "admin"]_vars

\* C9: on every guarded route a request without a token is answered 401 and one
\* whose token fails verification 403, and neither touches a store or a timer.
C9_Unauthenticated ==
    [][\A h \in AuthHeaders :
          (~Authentic(h) /\ GuardedRequest(h)) =>
             /\ res'.status = (IF HasToken(h) THEN 403 ELSE 401)
             /\ UNCHANGED <<stores, timers, issued, registering, loggingIn>>]_vars

\* A request with a bad token was turned away from a route that writes.
C9_Witness ==
    /\ res.route = "POST /api/executions/:workflowId" /\ res.status = 403
    /\ Len(workflows) >= 1

\* C10: every execution is of a stored workflow with the execution's userId; a
\* request for an id that names no workflow of the caller is answered 404,
\* appends no execution and starts no timer; and GET /api/executions shows a
\* caller only executions of the caller's own workflows.
C10_ExecutionOfOwnWorkflow ==
    /\ [](\A i \in 1..Len(executions) :
             \E k \in 1..Len(workflows) :
                /\ workflows[k].id = executions[i].workflowId
                /\ workflows[k].userId = executions[i].userId)
    /\ [][\A h \in AuthHeaders :
            /\ \A id \in WorkflowIds :
                  (/\ Authentic(h) /\ PostExecutions(h, id)
                   /\ ~\E k \in 1..Len(workflows) :
                         /\ workflows[k].id = id
                         /\ workflows[k].userId = h[2].payload.userId) =>
                     /\ res'.status = 404
                     /\ executions' = executions
                     /\ timers' = timers
            /\ (Authentic(h) /\ GetExecutions(h)) =>
                  \A k \in 1..Len(res'.body) :
                     \E w \in 1..Len(workflows) :
                        /\ workflows[w].id = res'.body[k].workflowId
                        /\ workflows[w].userId = h[2].payload.userId]_vars

\* A request to run a workflow was answered 404 while a workflow was stored and
\* a token of a user other than its owner was out.
C10_Witness ==
    /\ res.route = "POST /api/executions/:workflowId" /\ res.status = 404
    /\ Len(workflows) >= 1
    /\ \E t \in issued : t.payload.userId # workflows[1].userId
====
